---------------------------- MODULE Spec2Model ----------------------------
(***************************************************************************)
(* Model of src/app.py: the /api/summarize handler (summarize_video) and   *)
(* the functions it calls: allowed_file, download_youtube_video,           *)
(* extract_audio, transcribe_audio and summarize_text.                     *)
(*                                                                         *)
(* Strings the code inspects (file names, transcript text) are sequences   *)
(* of one-character strings, so that rsplit, splitext, lower, split and    *)
(* join are computed as Python computes them.  A path is a record          *)
(* [dir, name]: dir 0 is UPLOAD_FOLDER, dir d > 0 is the directory         *)
(* tempfile.mkdtemp(dir='temp') made, and an empty name is the directory   *)
(* itself.  Directory names contain no '.', so the string operations the   *)
(* code applies to whole paths act on the name part only.                  *)
(***************************************************************************)
EXTENDS Integers, Sequences, FiniteSets, TLC

\* ------------------------------------------------------------------ bounds
\* Requests the service receives; each is handled once.
NumReqs == 2
\* Length of the texts the summarizer is checked on, character by character.
MaxTextLen == 7
\* Number of sentences of the longer texts the summarizer is checked on.
MaxSentences == 9

Reqs == 1..NumReqs

\* ------------------------------------------------------- string operations
\* str.lower on one character (the letters the model's names use).
LowerChar(c) ==
    CASE c = "A" -> "a" [] c = "G" -> "g" [] c = "M" -> "m" [] c = "O" -> "o"
      [] c = "P" -> "p" [] c = "V" -> "v" [] OTHER -> c

\* str.lower
Lower(s) == [k \in DOMAIN s |-> LowerChar(s[k])]

\* str.rfind('.') as a 1-based index, 0 when there is no '.'.
LastDot(s) ==
    LET dots == {k \in DOMAIN s : s[k] = "."}
    IN  IF dots = {} THEN 0 ELSE CHOOSE k \in dots : \A j \in dots : j <= k

\* s.rsplit('.', 1)[0]: the whole string when it has no '.'.
RSplitHead(s) == IF LastDot(s) = 0 THEN s ELSE SubSeq(s, 1, LastDot(s) - 1)

\* s.rsplit('.', 1)[1], asked for only when '.' in s.
RSplitTail(s) == SubSeq(s, LastDot(s) + 1, Len(s))

\* os.path.splitext(p)[1]: the suffix from the last '.', unless only '.'
\* characters precede it in the file name.
SplitExt(s) ==
    LET d == LastDot(s)
    IN  IF d > 0 /\ \E k \in 1..(d - 1) : s[k] # "."
        THEN SubSeq(s, d, Len(s)) ELSE <<>>

\* str.endswith
EndsWith(s, suffix) ==
    /\ Len(s) >= Len(suffix)
    /\ SubSeq(s, Len(s) - Len(suffix) + 1, Len(s)) = suffix

\* ------------------------------------------------------- program constants
ALLOWED_EXTENSIONS ==
    { <<"m","p","4">>, <<"a","v","i">>, <<"m","o","v">>, <<"m","k","v">>,
      <<"w","e","b","m">>, <<"f","l","v">>, <<"w","m","v">> }

\* audio_extensions of summarize_video
audio_extensions ==
    { <<".","w","a","v">>, <<".","m","4","a">>, <<".","m","p","3">>,
      <<".","o","p","u","s">>, <<".","o","g","g">> }

\* audio_exts of download_youtube_video, in list order
audio_exts ==
    << <<".","w","a","v">>, <<".","m","4","a">>, <<".","m","p","3">>,
       <<".","o","p","u","s">> >>

\* The four entries of strategies; only the first has 'postprocessors'.
NumStrategies == 4
HasPostprocessors(i) == i = 1

UPLOAD_FOLDER == 0

\* Mutant: any name with a '.' is accepted.
allowed_file_AnyExtension(filename) == LastDot(filename) > 0
allowed_file(filename) ==
    /\ LastDot(filename) > 0
    /\ Lower(RSplitTail(filename)) \in ALLOWED_EXTENSIONS

\* ------------------------------------------------------------------ paths
Path(d, name) == [dir |-> d, name |-> name]
\* os.path.dirname of a file path
DirName(p) == [dir |-> p.dir, name |-> <<>>]
NoPath == [dir |-> -1, name |-> <<>>]

\* ------------------------------------------------------------------ inputs
\* File names a client may declare for an upload; <<>> is an empty filename.
UploadNames ==
    { <<"a",".","m","p","4">>, <<"a",".","M","O","V">>,
      <<"a",".","e","x","e">>, <<"a">>, <<>> }
\* request.files.get('video_file'): None when the request has no such part.
NoFile == <<"-">>
\* request youtube_url: absent, the empty string, or a URL.
UrlValues == {"None", "", "url"}

\* The requests the model sends, as the handler parses them (lines 245-253):
\* without use_openai, every file part alone, the URL alone and the URL with
\* a file part; with use_openai, the URL alone and one upload alone.
Request(url, file, use) == [youtube_url |-> url, video_file |-> file, use_openai |-> use]
JsonRequests ==
    {Request(url, NoFile, FALSE) : url \in UrlValues} \cup {Request("url", NoFile, TRUE)}
FormRequests ==
    {Request(url, file, FALSE) : url \in {"None", ""}, file \in UploadNames \cup {NoFile}}
      \cup {Request("url", file, FALSE) :
               file \in {NoFile, <<"a",".","e","x","e">>, <<"a",".","m","p","4">>}}
      \cup {Request("url", NoFile, TRUE), Request("None", <<"a",".","m","p","4">>, TRUE)}

\* The requests of the concurrent specification: uploads whose names or
\* whose audio files coincide, a rejected upload, an empty request and the
\* URL.
ConcurrentRequests ==
    {Request("None", <<"a",".","m","p","4">>, FALSE),
     Request("None", <<"a",".","M","O","V">>, FALSE),
     Request("None", <<"a",".","e","x","e">>, FALSE),
     Request("None", NoFile, FALSE),
     Request("url", NoFile, FALSE)}
\* What the downloader leaves in the concurrent specification: a video, or
\* the audio it could not convert.
ConcurrentDownloadNames == { <<"t",".","m","p","4">>, <<"t",".","m","4","a">> }

\* Names the downloader may leave in the scratch directory: the converted
\* audio, a video, and an audio file with an upper-case extension.
DownloadNames ==
    { <<"t",".","w","a","v">>, <<"t",".","m","p","4">>, <<"t",".","O","G","G">> }

\* Texts whisper may return: two sentences, and seven sentences.
ShortText == <<"a", ".", " ", "b", ".">>
LongText ==
    <<"a", ".", " ", "b", ".", " ", "c", ".", " ", "d", ".", " ",
      "e", ".", " ", "f", ".", " ", "g", ".">>
Transcripts == {ShortText, LongText}

\* ------------------------------------------------------------- summarizer
\* The literal delimiter '. ' of text.split.
Delim == <<".", " ">>

\* Index of the first occurrence of '. ' in s, 0 when there is none.
FindDelim(s) ==
    LET hits == {k \in 1..(Len(s) - 1) : s[k] = "." /\ s[k + 1] = " "}
    IN  IF hits = {} THEN 0 ELSE CHOOSE k \in hits : \A j \in hits : k <= j

\* text.split('. '): left to right, occurrences do not overlap.  from[i] is
\* the split of what s has from position i on.
Split(s) ==
    LET from[i \in 1..(Len(s) + 1)] ==
            LET k == FindDelim(SubSeq(s, i, Len(s)))
            IN  IF k = 0 THEN <<SubSeq(s, i, Len(s))>>
                ELSE <<SubSeq(s, i, i + k - 2)>> \o from[i + k + 1]
    IN  from[1]

\* sep.join(parts); upto[n] joins the first n parts.
Join(parts, sep) ==
    LET upto[n \in 0..Len(parts)] ==
            IF n = 0 THEN <<>>
            ELSE IF n = 1 THEN parts[1]
            ELSE upto[n - 1] \o sep \o parts[n]
    IN  upto[Len(parts)]

\* parts[a:b] of Python (0-based, end exclusive, clipped to the list).
Slice(parts, a, b) ==
    SubSeq(parts, a + 1, IF b < Len(parts) THEN b ELSE Len(parts))

KeyPointsHeader ==
    <<"\n", "\n", "K", "e", "y", " ", "p", "o", "i", "n", "t", "s", ":",
      "\n", "-", " ">>
Bullet == <<"\n", "-", " ">>

\* Mutant: the key points run over sentences[3:9].
simple_summary_SixPoints(text) ==
    LET sentences == Split(text)
    IN  IF Len(sentences) > 5
        THEN Join(Slice(sentences, 0, 3), Delim) \o <<".">>
               \o KeyPointsHeader \o Join(Slice(sentences, 3, 9), Bullet)
        ELSE text
\* Lines 229-235 of summarize_text: the local method.
simple_summary(text) ==
    LET sentences == Split(text)
    IN  IF Len(sentences) > 5
        THEN Join(Slice(sentences, 0, 3), Delim) \o <<".">>
               \o KeyPointsHeader \o Join(Slice(sentences, 3, 8), Bullet)
        ELSE text

\* What the chat-completion endpoint answers when it answers.
ExternalSummary == <<"s", "u", "m">>

\* Mutant: an error of the external call leaves the text as the summary.
summarize_text_NoFallback(text, use, key, api_ok) ==
    IF use /\ key
    THEN IF api_ok THEN ExternalSummary ELSE text
    ELSE simple_summary(text)
\* summarize_text(text, use_openai): key is os.getenv("OPENAI_API_KEY")
\* being set, api_ok whether client.chat.completions.create returns.
summarize_text(text, use, key, api_ok) ==
    IF use /\ key /\ api_ok THEN ExternalSummary ELSE simple_summary(text)

\* What became of the external call of lines 214-227: it is skipped when
\* use_openai is false or no credential is set (line 214), it answers
\* (line 225), or it raises and the except clause of line 226 takes over.
ExternalOutcome(use, key, api_ok) ==
    IF ~(use /\ key) THEN "skipped"
    ELSE IF api_ok THEN "answered" ELSE "raised"

\* Texts the summarizer is run on by itself: every text of at most
\* MaxTextLen characters over a letter, '.' and ' ', and the texts of at most
\* MaxSentences sentences joined by '. '.
TextChars == {"a", ".", " "}
SentenceChoices == { <<"a">>, <<"b", ".">>, <<>> }
TextInputs ==
    UNION {[1..n -> TextChars] : n \in 0..MaxTextLen}
      \cup {Join(ss, Delim) :
               ss \in UNION {[1..n -> SentenceChoices] : n \in 1..MaxSentences}}

\* ------------------------------------------------------------------ state
VARIABLES
    pc,           \* where each request's handler is
    youtube_url,  \* request field youtube_url
    video_file,   \* filename of the uploaded part, NoFile when there is none
    use_openai,   \* request flag use_openai
    temp_dir,     \* download_youtube_video: the scratch directory
    strategy,     \* download_youtube_video: index i of the loop (1-based)
    last_error,   \* download_youtube_video: last_error
    downloaded_file, \* summarize_video: what download_youtube_video returned
    video_path,   \* summarize_video: video_path
    audio_path,   \* summarize_video: audio_path
    temp_files,   \* summarize_video: the cleanup list
    cleaned,      \* summarize_video: entries of temp_files the loop has passed
    transcript,   \* summarize_video: transcript
    summary,      \* summarize_video: summary
    response,     \* what the handler returned
    files,        \* paths of the regular files on disk
    dirs,         \* scratch directories on disk
    created,      \* history: paths each request's handling created on disk
    removed,      \* history: paths each request's cleanup removed, in order
    calls,        \* history: the stage calls each request made, in order
    attempts,     \* history: the download configurations each request tried
    produced, \* history: the names the configuration that returned wrote itself
    env_path, \* os.environ['PATH'] of the server process, first entry first
    external, \* history: what became of the external summarization call
    sumText,      \* summarizer alone: the text it is given
    sumOut,       \* summarizer alone: what summarize_text returned
    sumDone       \* summarizer alone: summarize_text has returned

reqVars == <<youtube_url, video_file, use_openai>>
dlVars == <<temp_dir, strategy, last_error>>
pathVars == <<downloaded_file, video_path, audio_path, temp_files, cleaned>>
outVars == <<transcript, summary, response>>
fsVars == <<files, dirs>>
histVars == <<created, removed, calls, attempts>>
sumVars == <<sumText, sumOut, sumDone>>
extraVars == <<external, env_path, produced>>
vars == <<pc, reqVars, dlVars, pathVars, outVars, fsVars, histVars, sumVars,
          extraVars>>

NoError == [cfg |-> 0, kind |-> "None"]
NoResponse == [status |-> 0, body |-> [none |-> TRUE]]
NoText == <<>>

Truthy(url) == url \notin {"None", ""}

isfile(p) == p \in files
isdir(p) == p.name = <<>> /\ p.dir \in dirs
\* os.path.exists
exists(p) == isfile(p) \/ isdir(p)
\* os.listdir(temp_dir) as the set of names in it
listdir(d) == {p.name : p \in {q \in files : q.dir = d}}

\* jsonify({'error': ...}), status
ErrorResponse(status, text, cause) ==
    [status |-> status, body |-> [error |-> [text |-> text, cause |-> cause]]]
\* jsonify({'success': True, 'transcript': ..., 'summary': ...})
SuccessResponse(t, s) ==
    [status |-> 200, body |-> [success |-> TRUE, transcript |-> t, summary |-> s]]

\* PATH when the module has been imported (lines 21-36): what the server
\* was started with, ffmpeg_dir put in front of it, and the directory of the
\* ffmpeg link made at start in front of that.
STARTUP_PATH == <<"temp_bin_dir", "ffmpeg_dir", "PATH">>

\* No request has arrived and the disk holds nothing of theirs.
InitHandler ==
    /\ pc = [r \in Reqs |-> "idle"]
    /\ youtube_url = [r \in Reqs |-> "None"]
    /\ video_file = [r \in Reqs |-> NoFile]
    /\ use_openai = [r \in Reqs |-> FALSE]
    /\ temp_dir = [r \in Reqs |-> 0]
    /\ strategy = [r \in Reqs |-> 0]
    /\ last_error = [r \in Reqs |-> NoError]
    /\ downloaded_file = [r \in Reqs |-> NoPath]
    /\ video_path = [r \in Reqs |-> NoPath]
    /\ audio_path = [r \in Reqs |-> NoPath]
    /\ temp_files = [r \in Reqs |-> <<>>]
    /\ cleaned = [r \in Reqs |-> 0]
    /\ transcript = [r \in Reqs |-> NoText]
    /\ summary = [r \in Reqs |-> NoText]
    /\ response = [r \in Reqs |-> NoResponse]
    /\ files = {}
    /\ dirs = {}
    /\ created = [r \in Reqs |-> {}]
    /\ removed = [r \in Reqs |-> <<>>]
    /\ calls = [r \in Reqs |-> <<>>]
    /\ attempts = [r \in Reqs |-> <<>>]
    /\ produced = [r \in Reqs |-> {}]
    /\ env_path = STARTUP_PATH
    /\ external = [r \in Reqs |-> "none"]

Init ==
    /\ InitHandler
    /\ sumText = NoText
    /\ sumOut = NoText
    /\ sumDone = FALSE

\* ---------------------------------------------------------------- actions
Call(stage, arg) == [stage |-> stage, arg |-> arg]

\* Mutant: a stage's failure is answered 400.
HandlerExcept_Status400(r, text, cause) ==
    /\ response' = [response EXCEPT ![r] = ErrorResponse(400, text, cause)]
    /\ pc' = [pc EXCEPT ![r] = "responded"]
\* Mutant: a stage's failure is caught by nothing and no response is made.
HandlerExcept_Unanswered(r, text, cause) ==
    /\ UNCHANGED response
    /\ pc' = [pc EXCEPT ![r] = "raised"]
\* Mutant: a stage's failure is noted and the stage is entered again.
HandlerExcept_Retry(r, text, cause) ==
    /\ response' = [response EXCEPT ![r] = ErrorResponse(500, text, cause)]
    /\ UNCHANGED pc
\* The except clause of summarize_video (lines 319-320).
HandlerExcept(r, text, cause) ==
    /\ response' = [response EXCEPT ![r] = ErrorResponse(500, text, cause)]
    /\ pc' = [pc EXCEPT ![r] = "responded"]

\* Lines 243-256: the request is parsed and the handler's locals are set.
\* A JSON request has no file part.
ReceiveFrom(r, jsonRequests, formRequests) ==
    /\ pc[r] = "idle"
    /\ \E is_json \in BOOLEAN :
         \E req \in (IF is_json THEN jsonRequests ELSE formRequests) :
            /\ youtube_url' = [youtube_url EXCEPT ![r] = req.youtube_url]
            /\ video_file' = [video_file EXCEPT ![r] = req.video_file]
            /\ use_openai' = [use_openai EXCEPT ![r] = req.use_openai]
    /\ pc' = [pc EXCEPT ![r] = "route"]
    /\ UNCHANGED <<dlVars, pathVars, outVars, fsVars, histVars, sumVars,
                   external, env_path, produced>>

\* The r-th request arrives once the requests before it have been handled.
Receive(r) ==
    /\ \A q \in 1..(r - 1) : pc[q] = "done"
    /\ ReceiveFrom(r, JsonRequests, FormRequests)

\* A request arrives, whatever the other requests are doing.
ReceiveConcurrent(r) == ReceiveFrom(r, {}, ConcurrentRequests)

\* tempfile.mkdtemp(dir='temp'): a new directory under a name no other call
\* gets; the r-th request's call gets the name r.
mkdtemp(r) == r

\* Line 277: a file part with a non-empty filename.
HasUpload(r) == video_file[r] # NoFile /\ video_file[r] # <<>>

\* Mutant: the URL is looked at only when no file was uploaded.
UrlBranch_FileFirst(r) == Truthy(youtube_url[r]) /\ ~HasUpload(r)
\* Line 260: "if youtube_url" is the first test; the elif of line 277 and the
\* else of line 285 are reached only when it fails.
UrlBranch(r) == Truthy(youtube_url[r])

\* Line 260 taken, lines 62 and 116: download_youtube_video starts.
StartDownload(r) ==
    /\ pc[r] = "route"
    /\ UrlBranch(r)
    /\ LET d == mkdtemp(r)
       IN  /\ dirs' = dirs \cup {d}
           /\ temp_dir' = [temp_dir EXCEPT ![r] = d]
           /\ created' = [created EXCEPT ![r] = @ \cup {Path(d, <<>>)}]
    /\ strategy' = [strategy EXCEPT ![r] = 1]
    /\ last_error' = [last_error EXCEPT ![r] = NoError]
    /\ calls' = [calls EXCEPT ![r] = Append(@, Call("resolve", NoPath))]
    /\ pc' = [pc EXCEPT ![r] = "download"]
    /\ UNCHANGED <<reqVars, pathVars, outVars, files, removed,
                   attempts, sumVars, external, env_path, produced>>

\* Lines 127-139: the file name looked for after configuration i returned
\* prepared as prepare_filename(info), ls being os.listdir(temp_dir).  The
\* order of os.listdir is arbitrary, so files[0] is any of its entries.
AfterPostprocess(i, prepared, ls) ==
    IF ~HasPostprocessors(i) THEN {prepared}
    ELSE LET wavs == {f \in ls : EndsWith(f, <<".", "w", "a", "v">>)}
             base_name == RSplitHead(prepared)
             found == {k \in DOMAIN audio_exts : base_name \o audio_exts[k] \in ls}
         IN  IF wavs # {} THEN wavs
             ELSE IF found = {} THEN {prepared}
             ELSE {base_name \o audio_exts[CHOOSE k \in found : \A j \in found : k <= j]}

\* Lines 141-145: "fix extension if needed".
FixExtension(name, ls) ==
    IF name \notin ls /\ ls # {} THEN ls ELSE {name}

\* Mutant: a configuration that failed is tried again.
NextStrategy_Stay(i) == i
\* Mutant: a configuration is skipped.
NextStrategy_Skip(i) == i + 2
\* Line 117: enumerate(strategies) moves to the next configuration.
NextStrategy(i) == i + 1

\* One iteration of the loop of lines 117-154.  The downloader may leave a
\* file (one of names) in the scratch directory, and then either raises or
\* returns; when it returns, prepared is the name prepare_filename reports.
TryStrategyFrom(r, names) ==
    /\ pc[r] = "download"
    /\ strategy[r] <= NumStrategies
    /\ LET i == strategy[r]
           d == temp_dir[r]
       IN  \E written \in SUBSET names, raised \in BOOLEAN, prepared \in names :
             LET ls == listdir(d) \cup written
             IN  /\ Cardinality(written) <= 1
                 /\ files' = files \cup {Path(d, w) : w \in written}
                 /\ created' = [created EXCEPT
                                  ![r] = @ \cup {Path(d, w) : w \in written}]
                 /\ IF raised
                    THEN /\ last_error' = [last_error EXCEPT
                                ![r] = [cfg |-> i, kind |-> "raised"]]
                         /\ strategy' = [strategy EXCEPT ![r] = NextStrategy(i)]
                         /\ attempts' = [attempts EXCEPT
                                ![r] = Append(@, [cfg |-> i, ok |-> FALSE])]
                         /\ UNCHANGED <<pc, pathVars, produced>>
                    ELSE \E looked \in AfterPostprocess(i, prepared, ls) :
                         \E name \in FixExtension(looked, ls) :
                            /\ UNCHANGED last_error
                            /\ IF name \in ls
                               THEN /\ downloaded_file' = [downloaded_file EXCEPT
                                         ![r] = Path(d, name)]
                                    /\ pc' = [pc EXCEPT ![r] = "downloaded"]
                                    /\ attempts' = [attempts EXCEPT
                                         ![r] = Append(@, [cfg |-> i, ok |-> TRUE])]
                                    /\ produced' = [produced EXCEPT ![r] = written]
                                    /\ UNCHANGED <<strategy, video_path, audio_path,
                                                   temp_files, cleaned>>
                               ELSE /\ strategy' = [strategy EXCEPT ![r] = NextStrategy(i)]
                                    /\ attempts' = [attempts EXCEPT
                                         ![r] = Append(@, [cfg |-> i, ok |-> FALSE])]
                                    /\ UNCHANGED <<pc, pathVars, produced>>
    /\ UNCHANGED <<reqVars, temp_dir, outVars, dirs, removed, calls,
                   sumVars, external, env_path>>

TryStrategy(r) == TryStrategyFrom(r, DownloadNames)
TryStrategyConcurrent(r) == TryStrategyFrom(r, ConcurrentDownloadNames)

\* Mutant: the extension is compared without .lower().
IsAudioFile_CaseSensitive(name) == SplitExt(name) \in audio_extensions
\* Lines 268-269.
IsAudioFile(name) == Lower(SplitExt(name)) \in audio_extensions

\* Lines 263-274: download_youtube_video has returned, its locals are gone;
\* the file and its directory are registered and the file is classified by
\* its extension.
RegisterDownload(r) ==
    /\ pc[r] = "downloaded"
    /\ temp_files' = [temp_files EXCEPT
          ![r] = @ \o <<downloaded_file[r], DirName(downloaded_file[r])>>]
    /\ IF IsAudioFile(downloaded_file[r].name)
       THEN /\ audio_path' = [audio_path EXCEPT ![r] = downloaded_file[r]]
            /\ video_path' = [video_path EXCEPT ![r] = NoPath]
            /\ pc' = [pc EXCEPT ![r] = "transcribe"]
       ELSE /\ video_path' = [video_path EXCEPT ![r] = downloaded_file[r]]
            /\ UNCHANGED audio_path
            /\ pc' = [pc EXCEPT ![r] = "extract"]
    /\ temp_dir' = [temp_dir EXCEPT ![r] = 0]
    /\ strategy' = [strategy EXCEPT ![r] = 0]
    /\ last_error' = [last_error EXCEPT ![r] = NoError]
    /\ attempts' = [attempts EXCEPT ![r] = <<>>]
    /\ produced' = [produced EXCEPT ![r] = {}]
    /\ UNCHANGED <<reqVars, downloaded_file, cleaned, outVars, fsVars,
                   created, removed, calls, sumVars, external, env_path>>

\* Line 156: the loop ended without a return; the exception reaches the
\* handler's except clause.
DownloadExhausted(r) ==
    /\ pc[r] = "download"
    /\ strategy[r] > NumStrategies
    /\ HandlerExcept(r, "Error downloading YouTube video. All strategies failed.",
                     last_error[r])
    /\ UNCHANGED <<reqVars, dlVars, pathVars, transcript, summary, fsVars, histVars, sumVars,
                   external, env_path, produced>>

\* Lines 278-279.
RejectUpload(r) ==
    /\ pc[r] = "route"
    /\ ~UrlBranch(r)
    /\ HasUpload(r)
    /\ ~allowed_file(video_file[r])
    /\ response' = [response EXCEPT
                      ![r] = ErrorResponse(400, "Invalid file type.", NoError)]
    /\ pc' = [pc EXCEPT ![r] = "responded"]
    /\ UNCHANGED <<reqVars, dlVars, pathVars, transcript, summary, fsVars, histVars, sumVars,
                   external, env_path, produced>>

\* Lines 281-283: the upload is saved under the name the client declared.
\* video_file.save either writes the file or raises.
SaveUpload(r) ==
    /\ pc[r] = "route"
    /\ ~UrlBranch(r)
    /\ HasUpload(r)
    /\ allowed_file(video_file[r])
    /\ LET p == Path(UPLOAD_FOLDER, video_file[r])
       IN  /\ video_path' = [video_path EXCEPT ![r] = p]
           /\ calls' = [calls EXCEPT ![r] = Append(@, Call("resolve", p))]
           /\ \/ /\ files' = files \cup {p}
                 /\ created' = [created EXCEPT ![r] = @ \cup {p}]
                 /\ temp_files' = [temp_files EXCEPT ![r] = Append(@, p)]
                 /\ pc' = [pc EXCEPT ![r] = "extract"]
                 /\ UNCHANGED response
              \/ /\ HandlerExcept(r, "Error saving the upload", NoError)
                 /\ UNCHANGED <<files, created, temp_files>>
    /\ UNCHANGED <<reqVars, dlVars, downloaded_file, audio_path, cleaned,
                   transcript, summary, dirs, removed, attempts, sumVars,
                   external, env_path, produced>>

\* Lines 285-286.
RejectEmpty(r) ==
    /\ pc[r] = "route"
    /\ ~UrlBranch(r)
    /\ ~HasUpload(r)
    /\ response' = [response EXCEPT
                      ![r] = ErrorResponse(400, "Please provide either.", NoError)]
    /\ pc' = [pc EXCEPT ![r] = "responded"]
    /\ UNCHANGED <<reqVars, dlVars, pathVars, transcript, summary, fsVars, histVars, sumVars,
                   external, env_path, produced>>

\* Line 171: video_path.rsplit('.', 1)[0] + '_audio.wav'
AudioPathOf(p) ==
    Path(p.dir, RSplitHead(p.name) \o <<"_", "a", "u", "d", "i", "o", ".", "w", "a", "v">>)

\* Lines 289-292 with extract_audio (158-177).  The extraction can succeed
\* only on a file that is there; when it raises, write_audiofile may already
\* have left its output file.
ExtractAudio(r) ==
    /\ pc[r] = "extract"
    /\ calls' = [calls EXCEPT ![r] = Append(@, Call("extract", video_path[r]))]
    /\ LET out == AudioPathOf(video_path[r])
       IN  \E ok \in BOOLEAN, left \in BOOLEAN :
             /\ ok => (left /\ isfile(video_path[r]))
             /\ files' = IF left THEN files \cup {out} ELSE files
             /\ created' = [created EXCEPT
                              ![r] = IF left THEN @ \cup {out} ELSE @]
             /\ IF ok
                THEN /\ audio_path' = [audio_path EXCEPT ![r] = out]
                     /\ temp_files' = [temp_files EXCEPT ![r] = Append(@, out)]
                     /\ pc' = [pc EXCEPT ![r] = "transcribe"]
                     /\ UNCHANGED response
                ELSE /\ HandlerExcept(r, "Error extracting audio", NoError)
                     /\ UNCHANGED <<audio_path, temp_files>>
    /\ UNCHANGED <<reqVars, dlVars, downloaded_file, video_path, cleaned,
                   transcript, summary, dirs, removed, attempts, sumVars,
                   external, env_path, produced>>

\* Lines 187-190: ffmpeg_dir is put in front of PATH unless PATH has it.
PrependFfmpegDir(path) ==
    IF \E k \in 1..Len(path) : path[k] = "ffmpeg_dir"
    THEN path
    ELSE <<"ffmpeg_dir">> \o path

\* Lines 194-205: a fresh directory is made for the ffmpeg link; when the
\* link is made the directory is put in front of PATH, otherwise the
\* exception is swallowed and PATH stays.
PrependTempBinDir(path, linked) ==
    IF linked THEN <<"temp_bin_dir">> \o path ELSE path

\* Lines 295-296 with transcribe_audio (179-210): PATH is prepared for
\* Whisper (lines 187-205), then whisper_model.transcribe is called once
\* and returns a text or raises.  The directory of the ffmpeg link lies
\* outside uploads/ and the request's scratch directory, and files and dirs
\* do not follow it.
TranscribeAudio(r) ==
    /\ pc[r] = "transcribe"
    /\ calls' = [calls EXCEPT ![r] = Append(@, Call("transcribe", audio_path[r]))]
    /\ \E linked \in BOOLEAN :
         env_path' = PrependTempBinDir(PrependFfmpegDir(env_path), linked)
    /\ \/ /\ isfile(audio_path[r])
          /\ \E text \in Transcripts :
               transcript' = [transcript EXCEPT ![r] = text]
          /\ pc' = [pc EXCEPT ![r] = "summarize"]
          /\ UNCHANGED response
       \/ /\ HandlerExcept(r, "Error transcribing audio", NoError)
          /\ UNCHANGED transcript
    /\ UNCHANGED <<reqVars, dlVars, pathVars, summary, fsVars,
                   created, removed, attempts, sumVars, external, produced>>

\* Lines 299-300 with summarize_text (212-235); key is whether the
\* environment has OPENAI_API_KEY when the call reads it.
Summarize(r) ==
    /\ pc[r] = "summarize"
    /\ calls' = [calls EXCEPT ![r] = Append(@, Call("summarize", NoPath))]
    /\ \E key \in BOOLEAN, api_ok \in BOOLEAN :
         /\ summary' = [summary EXCEPT
               ![r] = summarize_text(transcript[r], use_openai[r], key, api_ok)]
         /\ external' = [external EXCEPT
               ![r] = ExternalOutcome(use_openai[r], key, api_ok)]
    /\ pc' = [pc EXCEPT ![r] = "cleanup"]
    /\ UNCHANGED <<reqVars, dlVars, pathVars, transcript, response, fsVars,
                   created, removed, attempts, sumVars, env_path, produced>>

\* Mutant: a deletion that raises is not caught in the loop and reaches the
\* handler's except clause.
CleanupStep_Propagate(r) ==
    /\ pc[r] = "cleanup"
    /\ cleaned[r] < Len(temp_files[r])
    /\ LET file_path == temp_files[r][cleaned[r] + 1]
       IN  \/ /\ isfile(file_path)
              /\ files' = files \ {file_path}
              /\ removed' = [removed EXCEPT ![r] = Append(@, file_path)]
              /\ cleaned' = [cleaned EXCEPT ![r] = @ + 1]
              /\ UNCHANGED <<dirs, pc, response>>
           \/ /\ ~isfile(file_path)
              /\ isdir(file_path)
              /\ dirs' = dirs \ {file_path.dir}
              /\ files' = {q \in files : q.dir # file_path.dir}
              /\ removed' = [removed EXCEPT ![r] = Append(@, file_path)]
              /\ cleaned' = [cleaned EXCEPT ![r] = @ + 1]
              /\ UNCHANGED <<pc, response>>
           \/ /\ ~isfile(file_path)
              /\ ~isdir(file_path)
              /\ cleaned' = [cleaned EXCEPT ![r] = @ + 1]
              /\ UNCHANGED <<files, dirs, removed, pc, response>>
           \/ /\ isfile(file_path) \/ isdir(file_path)
              /\ HandlerExcept(r, "Could not delete", NoError)
              /\ UNCHANGED <<files, dirs, removed, cleaned>>
    /\ UNCHANGED <<reqVars, dlVars, downloaded_file, video_path, audio_path,
                   temp_files, transcript, summary, created, calls, attempts,
                   sumVars, external, env_path, produced>>
\* One iteration of the loop of lines 303-311.  os.remove and shutil.rmtree
\* may raise; the except clause of line 310 swallows that and the path stays.
CleanupStep(r) ==
    /\ pc[r] = "cleanup"
    /\ cleaned[r] < Len(temp_files[r])
    /\ LET file_path == temp_files[r][cleaned[r] + 1]
       IN  \/ /\ isfile(file_path)
              /\ files' = files \ {file_path}
              /\ removed' = [removed EXCEPT ![r] = Append(@, file_path)]
              /\ UNCHANGED dirs
           \/ /\ ~isfile(file_path)
              /\ isdir(file_path)
              /\ dirs' = dirs \ {file_path.dir}
              /\ files' = {q \in files : q.dir # file_path.dir}
              /\ removed' = [removed EXCEPT ![r] = Append(@, file_path)]
           \/ /\ UNCHANGED <<files, dirs, removed>>
    /\ cleaned' = [cleaned EXCEPT ![r] = @ + 1]
    /\ UNCHANGED <<pc, reqVars, dlVars, downloaded_file, video_path, audio_path,
                   temp_files, outVars, created, calls, attempts, sumVars,
                   external, env_path, produced>>

\* Lines 313-317: the loop is over, the success response is returned.
Respond(r) ==
    /\ pc[r] = "cleanup"
    /\ cleaned[r] = Len(temp_files[r])
    /\ response' = [response EXCEPT
                      ![r] = SuccessResponse(transcript[r], summary[r])]
    /\ pc' = [pc EXCEPT ![r] = "responded"]
    /\ UNCHANGED <<reqVars, dlVars, pathVars, transcript, summary, fsVars, histVars, sumVars,
                   external, env_path, produced>>

\* The response has been sent and the handler's frame is gone.  What the
\* request left on disk stays.
Finish(r) ==
    /\ pc[r] = "responded"
    /\ pc' = [pc EXCEPT ![r] = "done"]
    /\ youtube_url' = [youtube_url EXCEPT ![r] = "None"]
    /\ video_file' = [video_file EXCEPT ![r] = NoFile]
    /\ use_openai' = [use_openai EXCEPT ![r] = FALSE]
    /\ temp_dir' = [temp_dir EXCEPT ![r] = 0]
    /\ strategy' = [strategy EXCEPT ![r] = 0]
    /\ last_error' = [last_error EXCEPT ![r] = NoError]
    /\ downloaded_file' = [downloaded_file EXCEPT ![r] = NoPath]
    /\ video_path' = [video_path EXCEPT ![r] = NoPath]
    /\ audio_path' = [audio_path EXCEPT ![r] = NoPath]
    /\ temp_files' = [temp_files EXCEPT ![r] = <<>>]
    /\ cleaned' = [cleaned EXCEPT ![r] = 0]
    /\ transcript' = [transcript EXCEPT ![r] = NoText]
    /\ summary' = [summary EXCEPT ![r] = NoText]
    /\ response' = [response EXCEPT ![r] = NoResponse]
    /\ created' = [created EXCEPT ![r] = {}]
    /\ removed' = [removed EXCEPT ![r] = <<>>]
    /\ calls' = [calls EXCEPT ![r] = <<>>]
    /\ attempts' = [attempts EXCEPT ![r] = <<>>]
    /\ external' = [external EXCEPT ![r] = "none"]
    /\ produced' = [produced EXCEPT ![r] = {}]
    /\ UNCHANGED <<fsVars, sumVars, env_path>>

\* What a request in the handler does next, the download loop apart.
Handle(r) ==
    \/ StartDownload(r)
    \/ RegisterDownload(r)
    \/ DownloadExhausted(r)
    \/ RejectUpload(r)
    \/ SaveUpload(r)
    \/ RejectEmpty(r)
    \/ ExtractAudio(r)
    \/ TranscribeAudio(r)
    \/ Summarize(r)
    \/ CleanupStep(r)
    \/ Respond(r)
    \/ Finish(r)

\* Requests handled one after the other.
Next == \E r \in Reqs : Receive(r) \/ TryStrategy(r) \/ Handle(r)

\* Requests handled by concurrent threads of the server.
NextConcurrent ==
    \E r \in Reqs : ReceiveConcurrent(r) \/ TryStrategyConcurrent(r) \/ Handle(r)

\* The summarizer by itself: summarize_text(text, use_openai=False) on a
\* text of TextInputs.
InitSummarizer ==
    /\ InitHandler
    /\ sumText \in TextInputs
    /\ sumOut = NoText
    /\ sumDone = FALSE

SummarizeLocal ==
    /\ ~sumDone
    /\ \E key \in BOOLEAN, api_ok \in BOOLEAN :
         sumOut' = summarize_text(sumText, FALSE, key, api_ok)
    /\ sumDone' = TRUE
    /\ UNCHANGED <<pc, reqVars, dlVars, pathVars, outVars, fsVars, histVars, sumText,
                   external, env_path, produced>>

NextSummarizer == SummarizeLocal

Spec == Init /\ [][Next]_vars
SpecSummarizer == InitSummarizer /\ [][NextSummarizer]_vars
SpecConcurrent == Init /\ [][NextConcurrent]_vars

\* The requests of ConcurrentRequests handled one after the other.
ReceiveInTurn(r) ==
    /\ \A q \in 1..(r - 1) : pc[q] = "done"
    /\ ReceiveFrom(r, {}, ConcurrentRequests)

NextInTurn ==
    \E r \in Reqs : ReceiveInTurn(r) \/ TryStrategyConcurrent(r) \/ Handle(r)

\* A request that can take a step takes one: every external call (download,
\* save, extraction, transcription, summarization API, deletion) returns or
\* raises, and the server goes on running the thread of a request it has
\* received.  Nothing is assumed about when a request arrives.
Fairness ==
    \A r \in Reqs : WF_vars(TryStrategyConcurrent(r) \/ Handle(r))
SpecFair == Init /\ [][NextInTurn]_vars /\ Fairness

\* ----------------------------------------------------------------- claims
Range(seq) == {seq[k] : k \in DOMAIN seq}
Last(seq) == seq[Len(seq)]
Responded(r) == pc[r] = "responded"
Stages(r) == [k \in DOMAIN calls[r] |-> calls[r][k].stage]

\* C1: whenever a request's response is returned, on success or on the
\* failure of any stage, the cleanup loop has run over the whole of
\* temp_files and none of the registered paths exists on disk.
C1_CleanupOnEveryPath ==
    \A r \in Reqs :
       Responded(r) =>
          /\ cleaned[r] = Len(temp_files[r])
          /\ \A p \in Range(temp_files[r]) : ~exists(p)

\* A path is covered by the cleanup list when it or its scratch directory
\* is an entry of the list.
Registered(r, p) ==
    \/ p \in Range(temp_files[r])
    \/ p.dir # UPLOAD_FOLDER /\ DirName(p) \in Range(temp_files[r])

\* C2: when a request's response is returned, every artifact the request
\* created (scratch directory, files in it, saved upload, extracted audio) is
\* covered by temp_files, and every entry of temp_files has been removed once:
\* it is gone, and it was removed by its own entry or with its directory.
C2_ArtifactsRegisteredAndRemovedOnce ==
    \A r \in Reqs :
       Responded(r) =>
          /\ \A p \in created[r] : Registered(r, p)
          /\ \A p \in Range(temp_files[r]) :
                /\ ~exists(p)
                /\ Cardinality({k \in DOMAIN removed[r] : removed[r][k] = p}) <= 1
                /\ \/ p \in Range(removed[r])
                   \/ DirName(p) \in Range(removed[r])

\* C3: the download configurations are attempted in list order, each at
\* most once, configuration i+1 only after configuration i failed, and none
\* after the first success: the k-th attempt of a call is configuration k, and
\* only the last attempt can be a success.
C3_OrderedFallback ==
    \A r \in Reqs :
       \A k \in DOMAIN attempts[r] :
          /\ attempts[r][k].cfg = k
          /\ k <= NumStrategies
          /\ k < Len(attempts[r]) => ~attempts[r][k].ok

\* C3 witness: a download that succeeded at a later configuration, after the
\* earlier ones failed.
C3_Witness ==
    \E r \in Reqs :
       /\ pc[r] = "downloaded"
       /\ Len(attempts[r]) = 3
       /\ attempts[r][3].ok

\* The response download_youtube_video's failure leads to.
DownloadFailed(r) ==
    /\ Responded(r)
    /\ response[r].status = 500
    /\ response[r].body.error.text
         = "Error downloading YouTube video. All strategies failed."

\* C4: when every configuration failed, in whichever way, the request's 500
\* response carries the error of the last configuration that failed.
C4_LastFailureReported ==
    \A r \in Reqs :
       DownloadFailed(r) =>
          /\ Len(attempts[r]) = NumStrategies
          /\ response[r].body.error.cause.cfg = Last(attempts[r]).cfg

\* The upload names of the model whose extension is in the allow-list.
AllowedUploadNames == { <<"a",".","m","p","4">>, <<"a",".","M","O","V">> }
\* The request carries a file part whose name has no allowed extension.
DisallowedUpload(r) ==
    video_file[r] # NoFile /\ video_file[r] \notin AllowedUploadNames
\* The request was answered 400 and no stage ran for it.
RejectedUntouched(r) ==
    /\ response[r].status = 400
    /\ calls[r] = <<>>
    /\ created[r] = {}
    /\ temp_files[r] = <<>>

\* C5 as stated: every request that carries a file with a disallowed
\* extension is answered 400 without download, save, extraction or
\* transcription.
C5_DisallowedUploadRejected ==
    \A r \in Reqs :
       (Responded(r) /\ DisallowedUpload(r)) => RejectedUntouched(r)

\* C5 amended: the same for every such request that carries no non-empty
\* youtube_url.
C5_DisallowedUploadRejectedWithoutUrl ==
    \A r \in Reqs :
       (Responded(r) /\ DisallowedUpload(r) /\ ~Truthy(youtube_url[r]))
          => RejectedUntouched(r)

\* C5 witness: an upload named a.exe, sent without URL, has been answered.
C5_Witness ==
    \E r \in Reqs :
       /\ Responded(r)
       /\ ~Truthy(youtube_url[r])
       /\ video_file[r] = <<"a",".","e","x","e">>
       /\ response[r].status = 400

InFlight(r) == pc[r] \notin {"idle", "responded", "done"}
\* The paths a request has written or registered for cleanup.
Footprint(r) == created[r] \cup Range(temp_files[r])

\* C6: two requests in flight at the same time have disjoint artifact paths.
C6_RequestPrivatePaths ==
    \A r1 \in Reqs, r2 \in Reqs :
       (r1 # r2 /\ InFlight(r1) /\ InFlight(r2))
          => Footprint(r1) \cap Footprint(r2) = {}

\* What the handler's validation rejects: no URL, and no file part with a
\* name or one whose extension is not allowed.
Invalid(r) ==
    /\ ~Truthy(youtube_url[r])
    /\ video_file[r] \notin AllowedUploadNames

\* C7: a request is answered either 200 with success, transcript and summary
\* together, or with an error body holding the error alone: 400 when the
\* validation rejected it, 500 when a stage failed; before it is answered
\* there is no response.
C7_AllOrNothingResponse ==
    \A r \in Reqs :
       IF Responded(r)
       THEN IF Invalid(r)
            THEN /\ response[r].status = 400
                 /\ DOMAIN response[r].body = {"error"}
            ELSE \/ /\ response[r].status = 200
                    /\ DOMAIN response[r].body = {"success", "transcript", "summary"}
                    /\ response[r].body.success
                    /\ response[r].body.transcript = transcript[r]
                    /\ response[r].body.summary = summary[r]
                    /\ Last(Stages(r)) = "summarize"
                 \/ /\ response[r].status = 500
                    /\ DOMAIN response[r].body = {"error"}
                    /\ calls[r] # <<>>
                    /\ Last(Stages(r)) # "summarize"
       ELSE response[r].status = 0

\* C7 witness: a request whose transcription failed after its audio was
\* extracted has been answered.
C7_Witness ==
    \E r \in Reqs :
       /\ Responded(r)
       /\ response[r].status = 500
       /\ Stages(r) = <<"resolve", "extract", "transcribe">>

\* The stage a 500 response's message names.
FailedStage(r) ==
    LET text == response[r].body.error.text
    IN  CASE text = "Error downloading YouTube video. All strategies failed." -> "resolve"
          [] text = "Error saving the upload" -> "resolve"
          [] text = "Error extracting audio" -> "extract"
          [] text = "Error transcribing audio" -> "transcribe"
          [] OTHER -> "none"

IsPrefix(a, b) == Len(a) <= Len(b) /\ SubSeq(b, 1, Len(a)) = a

\* C8: the stages are called in the order resolve, extract (optional),
\* transcribe, summarize, each at most once, and the stage that failed is the
\* last one called.
C8_ForwardOnlyFailFast ==
    \A r \in Reqs :
       /\ \/ IsPrefix(Stages(r), <<"resolve", "extract", "transcribe", "summarize">>)
          \/ IsPrefix(Stages(r), <<"resolve", "transcribe", "summarize">>)
       /\ (Responded(r) /\ response[r].status = 500)
             => Last(Stages(r)) = FailedStage(r)

\* C8 witness: a request that went through all four stages has been answered.
C8_Witness ==
    \E r \in Reqs :
       /\ Responded(r)
       /\ response[r].status = 200
       /\ Stages(r) = <<"resolve", "extract", "transcribe", "summarize">>

\* The download names of the model whose extension is an audio type.
AudioDownloadNames ==
    { <<"t",".","w","a","v">>, <<"t",".","m","4","a">>, <<"t",".","O","G","G">> }
ResolvedAudio(r) ==
    downloaded_file[r] # NoPath /\ downloaded_file[r].name \in AudioDownloadNames
\* The file the resolver produced: the download, or the saved upload.
ResolvedFile(r) ==
    IF downloaded_file[r] # NoPath THEN downloaded_file[r]
    ELSE Path(UPLOAD_FOLDER, video_file[r])

\* C9: extract_audio is skipped exactly when the download has an audio
\* extension, whatever its case, and then the download is what is
\* transcribed; otherwise extract_audio is called on the resolved file before
\* the transcription, and its output is what is transcribed.
C9_ExtractionSkippedIffAudio ==
    \A r \in Reqs :
       \A k \in DOMAIN calls[r] :
          /\ calls[r][k].stage = "extract" =>
                /\ ~ResolvedAudio(r)
                /\ calls[r][k].arg = ResolvedFile(r)
          /\ calls[r][k].stage = "transcribe" =>
                IF ResolvedAudio(r)
                THEN /\ k = 2
                     /\ calls[r][k].arg = downloaded_file[r]
                ELSE /\ k = 3
                     /\ calls[r][2] = Call("extract", ResolvedFile(r))
                     /\ calls[r][k].arg = audio_path[r]
                     /\ Last(temp_files[r]) = audio_path[r]
                     /\ audio_path[r] \in created[r]

\* C9 witness: a download named t.OGG is transcribed as it is.
C9_Witness ==
    \E r \in Reqs :
       /\ downloaded_file[r].name = <<"t",".","O","G","G">>
       /\ Last(calls[r]) = Call("transcribe", downloaded_file[r])

\* The 'Key points' section over sentences a..b of s: a header line, then
\* one bullet per sentence.
RECURSIVE BulletLines(_, _, _)
BulletLines(s, a, b) ==
    IF a > b THEN <<>>
    ELSE <<"\n", "-", " ">> \o s[a] \o BulletLines(s, a + 1, b)
KeyPointsSection(s, a, b) ==
    <<"\n", "\n", "K", "e", "y", " ", "p", "o", "i", "n", "t", "s", ":">>
      \o BulletLines(s, a, b)

\* C10: with use_openai false the text is split on '. ' (the pieces hold no
\* delimiter and joined again give the text); at most 5 sentences: the text
\* comes back unchanged; more than 5: the first 3 sentences, each ended by a
\* full stop, then the 'Key points' section listing sentences 4 to 8 in order,
\* and nothing else.
C10_LocalSummary ==
    sumDone =>
       LET s == Split(sumText)
       IN  /\ Join(s, <<".", " ">>) = sumText
           /\ \A k \in DOMAIN s : FindDelim(s[k]) = 0
           /\ IF Len(s) <= 5
              THEN sumOut = sumText
              ELSE sumOut = s[1] \o <<".", " ">> \o s[2] \o <<".", " ">> \o s[3] \o <<".">>
                              \o KeyPointsSection(s, 4, IF Len(s) < 8 THEN Len(s) ELSE 8)

\* C10 witness: a text of nine sentences has been summarized.
C10_Witness ==
    /\ sumDone
    /\ Len(Split(sumText)) = 9
    /\ sumOut # sumText

\* C11: when use_openai is true, a credential is set and the external call
\* raises, the summary is what summarize_text gives for the same text with
\* use_openai false, and the request goes on to cleanup and to the 200
\* response carrying that summary; it is never answered with an error.
C11_ExternalFailureSwallowed ==
    \A r \in Reqs :
        external[r] = "raised" =>
            /\ use_openai[r]
            /\ summary[r] = summarize_text(transcript[r], FALSE, TRUE, FALSE)
            /\ summary[r] = summarize_text(transcript[r], FALSE, FALSE, TRUE)
            /\ pc[r] \in {"cleanup", "responded"}
            /\ pc[r] = "responded" =>
                  /\ response[r].status = 200
                  /\ response[r].body = SuccessResponse(transcript[r], summary[r]).body

\* A request with a transcript of more than five sentences whose external
\* call raised has been answered 200 with the local summary.
C11_Witness ==
    \E r \in Reqs :
        /\ external[r] = "raised"
        /\ transcript[r] = LongText
        /\ summary[r] # transcript[r]
        /\ summary[r] # ExternalSummary
        /\ pc[r] = "responded"
        /\ response[r].status = 200

\* C12: handling requests leaves the process-wide state that other requests
\* read unchanged: PATH of the process environment is what it was when the
\* server started, however many requests were handled or are running.
C12_NoSharedMutableState ==
    env_path = STARTUP_PATH

\* C13: every request that has been received is answered, with the 200
\* response or with an error response, and no call of the resolver makes
\* more attempts than there are configurations.
C13_Terminates ==
    /\ [](\A r \in Reqs : Len(attempts[r]) <= NumStrategies)
    /\ \A r \in Reqs :
          (pc[r] = "route") ~>
              (pc[r] = "responded" /\ response[r].status \in {200, 400, 500})

\* After a request that is over, a request was answered 500 when the fourth
\* configuration had failed too.
C13_Witness ==
    \E r, q \in Reqs :
        /\ pc[q] = "done"
        /\ pc[r] = "responded"
        /\ response[r].status = 500
        /\ Len(attempts[r]) = NumStrategies
        /\ \A k \in 1..NumStrategies : ~attempts[r][k].ok

\* C14: a request with a non-empty youtube_url and an uploaded file takes the
\* URL branch only: its first call is the download, the path of the upload
\* under uploads/ is never written, registered, or handed to a stage,
\* everything the request creates lies in its scratch directory, and the
\* answer is never the rejection of the file type, whatever the filename.
C14_UrlTakesPrecedence ==
    \A r \in Reqs :
        (Truthy(youtube_url[r]) /\ HasUpload(r) /\ pc[r] # "route") =>
            LET upload == Path(UPLOAD_FOLDER, video_file[r])
            IN  /\ calls[r] # <<>>
                /\ calls[r][1] = Call("resolve", NoPath)
                /\ \A k \in 1..Len(calls[r]) :
                      calls[r][k].arg \notin {upload, AudioPathOf(upload)}
                /\ upload \notin created[r]
                /\ \A p \in created[r] : p.dir = mkdtemp(r)
                /\ \A k \in 1..Len(temp_files[r]) : temp_files[r][k] # upload
                /\ video_path[r] # upload
                /\ audio_path[r] # AudioPathOf(upload)
                /\ response[r] # ErrorResponse(400, "Invalid file type.", NoError)
                /\ pc[r] = "responded" => response[r].status \in {200, 500}

\* A request with a URL and an upload named a.exe was answered 200 after
\* its download had been cleaned up.
C14_Witness ==
    \E r \in Reqs :
        /\ Truthy(youtube_url[r])
        /\ video_file[r] = <<"a", ".", "e", "x", "e">>
        /\ pc[r] = "responded"
        /\ response[r].status = 200
        /\ removed[r] # <<>>

\* C15: when download_youtube_video returns at a configuration, the path it
\* returns exists on disk, lies in the request's scratch directory and names
\* a file that this configuration's own download wrote, not one an earlier
\* configuration left there.
C15_ResolvedFileIsOwn ==
    \A r \in Reqs :
        pc[r] = "downloaded" =>
            /\ isfile(downloaded_file[r])
            /\ downloaded_file[r].dir = temp_dir[r]
            /\ downloaded_file[r].name \in produced[r]

\* C16: once the cleanup loop has started, the request is answered only
\* when the loop has passed every registered path, and then with the 200
\* response carrying transcript and summary, whatever the deletions did;
\* every path the loop has passed was removed by its own step, or is still
\* there because its deletion failed, or was gone with its parent directory
\* and was passed over without an error.
C16_CleanupBestEffort ==
    \A r \in Reqs :
        (pc[r] \in {"cleanup", "responded"} /\ external[r] # "none") =>
            /\ cleaned[r] <= Len(temp_files[r])
            /\ Len(removed[r]) <= cleaned[r]
            /\ \A k \in 1..cleaned[r] :
                  LET file_path == temp_files[r][k]
                  IN  \/ file_path \in Range(removed[r])
                      \/ exists(file_path)
                      \/ DirName(file_path) \in Range(removed[r])
            /\ pc[r] = "responded" =>
                  /\ cleaned[r] = Len(temp_files[r])
                  /\ response[r] = SuccessResponse(transcript[r], summary[r])

\* A downloaded video was answered 200 after a loop of three paths: the
\* deletion of the video failed, the scratch directory was then removed
\* with the video and the extracted audio in it, and the audio path, by
\* then gone, was passed over.
C16_Witness ==
    \E r \in Reqs :
        /\ pc[r] = "responded"
        /\ response[r].status = 200
        /\ Len(temp_files[r]) = 3
        /\ cleaned[r] = 3
        /\ temp_files[r][3].dir = temp_files[r][2].dir
        /\ removed[r] = <<temp_files[r][2]>>
        /\ ~exists(temp_files[r][1])
        /\ ~exists(temp_files[r][3])

=============================================================================
